---- MODULE Spec2Model ----
(***************************************************************************)
(* chrono-chat-prime: the chat-with-gemini edge function (the message      *)
(* orchestrator), the user_points ledger it updates, the messages table    *)
(* it appends to, and the PointsDisplay shop that debits the same ledger.  *)
(*                                                                         *)
(* One user, one conversation.  Every `await` of the handler is a step of  *)
(* its own, so the handler interleaves with the shop (and with the handler *)
(* of a concurrent request) between store operations.  Each store call and *)
(* the provider call choose their outcome nondeterministically (the code   *)
(* inspects or ignores an `error` result).                                 *)
(*                                                                         *)
(* Time is counted in ticks, TicksPerDay to a UTC calendar day:            *)
(* toISOString().split('T')[0] of an instant names its day, and            *)
(* setDate(getDate() - 1) moves an instant back by one day (the edge       *)
(* runtime's local zone is UTC).                                           *)
(***************************************************************************)
EXTENDS Integers, Sequences, FiniteSets, TLC

VARIABLES
    now,          \* the wall clock, in ticks (what new Date() reads)
    user_points,  \* table user_points restricted to the user: <<>> or <<row>>
    messages,     \* table messages of the conversation, in created_at order
    purchases,    \* table purchases: the number of rows appended
    req,          \* per browser tab: the orchestrator request it has in flight
    nreq,         \* number of requests issued so far (request ids)
    userPoints,   \* PointsDisplay state: <<>> (null) or <<row>>
    shop,         \* PointsDisplay.purchaseItem in flight (its closure)
    newUser,      \* history: the user had no activity in the initial state
    chatMessages, \* ChatInterface state `messages`: the local message list
    send,         \* ChatInterface.sendMessage in flight (its closure)
    title,        \* conversations.title of the conversation, in the store
    titleReq,     \* updateConversationTitle calls whose update is in flight
    conversationRows,     \* table conversations of the user: ids, newest first
    conversations,        \* ChatLayout state: the local list of ids
    activeConversationId, \* ChatLayout state: an id or null
    ops,                  \* ChatLayout callbacks awaiting the store
    nconv                 \* number of conversations ever inserted (their ids)

\* the state of the conversation list of ChatLayout
lvars == <<conversationRows, conversations, activeConversationId, ops, nconv>>

\* the state of the client components ChatInterface and ChatLayout
cvars == <<chatMessages, send, title, titleReq, lvars>>

vars == <<now, user_points, messages, purchases, req, nreq, userPoints, shop,
          newUser, chatMessages, send, title, titleReq, conversationRows,
          conversations, activeConversationId, ops, nconv>>

----------------------------------------------------------------------------
(* Bounds of the model *)

MaxRequests == 2      \* orchestrator requests issued in a behaviour
MaxPurchases == 1     \* rows appended to purchases in a behaviour
MaxTicks == 1         \* clock ticks that pass in a behaviour
TicksPerDay == 2      \* granularity of the clock
FirstDay == 2         \* the day number of the initial state
InitStreak == 2       \* current_streak of an initial row with a date

Tabs == {1, 2}                    \* browser tabs (ChatInterface instances)
Solo == {1}                       \* the tab of the one-tab specification
LowTotal == 3         \* initial total_points below the boost cost
HighTotal == 10       \* initial total_points that affords a purchase
ShopCosts == {5, 10}              \* the costs the shop buttons pass
NoDate == -1                      \* last_activity_date IS NULL

----------------------------------------------------------------------------
(* Program constants *)

BasePoints == 1       \* let pointsAwarded = 1
StreakBonus == 5      \* pointsAwarded += 5
BoostCost == 10       \* pointsCost = 10

----------------------------------------------------------------------------
(* Pure parts of the handler *)

\* Math.max(0, x)
Max0(x) == IF x > 0 THEN x ELSE 0

\* new Date().toISOString().split('T')[0] at instant t
DateStr(t) == t \div TicksPerDay

\* yesterday.setDate(yesterday.getDate() - 1); ...toISOString().split('T')[0]
YesterdayStr(t) == DateStr(t - TicksPerDay)

\* variant: the streak survives a gap
NewStreakKeptOnGap(lastActivityDate, yesterdayStr, today, current_streak) ==
    IF lastActivityDate = yesterdayStr THEN current_streak + 1
    ELSE current_streak

\* let newStreak = 1; if (=== yesterdayStr) ... else if (=== today) ...
NewStreak(lastActivityDate, yesterdayStr, today, current_streak) ==
    IF lastActivityDate = yesterdayStr THEN current_streak + 1
    ELSE IF lastActivityDate = today THEN current_streak
    ELSE 1

\* let pointsAwarded = 1; += 5 on a streak day; = 1 on the same day
Award(lastActivityDate, yesterdayStr, today) ==
    IF lastActivityDate = yesterdayStr THEN BasePoints + StreakBonus
    ELSE IF lastActivityDate = today THEN 1
    ELSE BasePoints

\* variant: the boost price is charged on every request
PointsCostAlways(boost) == BoostCost

\* let pointsCost = 0; if (boost) pointsCost = 10
PointsCost(boost) == IF boost THEN BoostCost ELSE 0

\* variant: the total without Math.max(0, ...)
NewTotalPointsNoClamp(total_points, pointsAwarded, pointsCost) ==
    total_points + pointsAwarded - pointsCost

\* Math.max(0, userPoints.total_points + pointsAwarded - pointsCost)
NewTotalPoints(total_points, pointsAwarded, pointsCost) ==
    Max0(total_points + pointsAwarded - pointsCost)

\* userPoints.points_spent + pointsCost
NewPointsSpent(points_spent, pointsCost) == points_spent + pointsCost

----------------------------------------------------------------------------
(* Rows *)

Row(t, s, c, d) ==
    [total_points |-> t, points_spent |-> s, current_streak |-> c,
     last_activity_date |-> d]

\* variant: the user message is stored under the assistant role
UserMsgAsAssistant(id, content) ==
    [role |-> "assistant", content |-> content, points_awarded |-> 0, req |-> id]

UserMsg(id, content) ==
    [role |-> "user", content |-> content, points_awarded |-> 0, req |-> id]

AssistantMsg(id, content, pts) ==
    [role |-> "assistant", content |-> content, points_awarded |-> pts, req |-> id]

IdleReq ==
    [pc |-> "idle", id |-> 0, kind |-> "none", message |-> "",
     credential |-> "", conversationId |-> "", boost |-> FALSE, history |-> 0, userSaved |-> FALSE,
     outcome |-> "", aiResponse |-> "", today |-> NoDate,
     yesterdayStr |-> NoDate, rowSeen |-> "", row |-> <<>>,
     pointsAwarded |-> 0, pointsCost |-> 0, newStreak |-> 0,
     newTotalPoints |-> 0, newPointsSpent |-> 0, ledgerWrite |-> "none",
     written |-> <<>>, assistantSaved |-> FALSE, error |-> ""]

IdleShop == [pc |-> "idle", cost |-> 0, total_points |-> 0, points_spent |-> 0]

\* sendMessage not running; `result` keeps how the last run ended, `before`
\* the local list and `held` the number of stored messages when it began
IdleSend ==
    [pc |-> "idle", userMessage |-> "", before |-> <<>>, held |-> 0,
     result |-> ""]

----------------------------------------------------------------------------
Init ==
    /\ now = FirstDay * TicksPerDay + (TicksPerDay - 1)   \* the day's last tick
    /\ user_points \in
          {<<>>, <<Row(0, 0, 0, NoDate)>>,
           <<Row(LowTotal, 0, InitStreak, FirstDay - 2)>>,
           <<Row(LowTotal, 0, InitStreak, FirstDay - 1)>>,
           <<Row(HighTotal, 0, InitStreak, FirstDay)>>}
    /\ messages = <<>>
    /\ purchases = 0
    /\ req = [t \in Tabs |-> IdleReq]
    /\ nreq = 0
    /\ userPoints = <<>>
    /\ shop = IdleShop
    /\ newUser = (user_points \in {<<>>, <<Row(0, 0, 0, NoDate)>>})
    /\ chatMessages = <<>>
    /\ send = IdleSend
    /\ title = "New Conversation"
    /\ titleReq = <<>>
    /\ conversationRows = <<"c1">>
    /\ conversations = <<"c1">>
    /\ activeConversationId = "c1"
    /\ ops = <<>>
    /\ nconv = 1

----------------------------------------------------------------------------
(* The clock.  A request is served within the hosting platform's wall-clock *)
(* limit, far below a day: at most one midnight passes between the moment   *)
(* the handler reads `today` and the moment it reads `yesterday`.           *)
Tick ==
    /\ now < FirstDay * TicksPerDay + (TicksPerDay - 1) + MaxTicks
    /\ \A t \in Tabs :
          req[t].pc = "readPoints" => DateStr(now + 1) - req[t].today <= 1
    /\ now' = now + 1
    /\ UNCHANGED <<user_points, messages, purchases, req, nreq, userPoints, shop, newUser, cvars>>

----------------------------------------------------------------------------
(* ChatInterface: the two callers of the edge function *)

\* sendMessage: supabase.functions.invoke('chat-with-gemini', {message, ...})
SendMessage(t) ==
    /\ req[t].pc = "idle"
    /\ nreq < MaxRequests
    /\ \E b \in BOOLEAN :
          req' = [req EXCEPT ![t] =
                    [IdleReq EXCEPT !.pc = "auth", !.id = nreq + 1,
                                    !.kind = "send", !.message = "Hello",
                                    !.boost = b]]
    /\ nreq' = nreq + 1
    /\ UNCHANGED <<now, user_points, messages, purchases, userPoints, shop, newUser, cvars>>

\* regenerateResponse(messageIndex): the message before an assistant message
\* must be a user message; its content is sent as the new message.  The local
\* list is a prefix of the table (rows are immutable and only appended).
RegenerateResponse(t) ==
    /\ req[t].pc = "idle"
    /\ nreq < MaxRequests
    /\ \E i \in 2..Len(messages), b \in BOOLEAN :
          /\ messages[i].role = "assistant"
          /\ messages[i - 1].role = "user"
          /\ req' = [req EXCEPT ![t] =
                    [IdleReq EXCEPT !.pc = "auth", !.id = nreq + 1,
                                    !.kind = "regenerate",
                                    !.message = messages[i - 1].content,
                                    !.boost = b]]
    /\ nreq' = nreq + 1
    /\ UNCHANGED <<now, user_points, messages, purchases, userPoints, shop, newUser, cvars>>

\* after invoke returns (or throws): the tab is free for the next request
Complete(t) ==
    /\ req[t].pc \in {"done", "failed"}
    /\ req' = [req EXCEPT ![t] = IdleReq]
    /\ UNCHANGED <<now, user_points, messages, purchases, nreq, userPoints, shop, newUser, cvars>>

----------------------------------------------------------------------------
(* The serve handler of chat-with-gemini, one action per await *)

\* catch (error): the 500 response carrying error.message
Fail(t, msg) ==
    [req EXCEPT ![t] = [IdleReq EXCEPT !.pc = "failed", !.error = msg,
                                       !.id = req[t].id, !.kind = req[t].kind,
                                       !.boost = req[t].boost,
                                       !.credential = req[t].credential,
                                       !.message = req[t].message,
                                       !.conversationId = req[t].conversationId,
                                       !.userSaved = req[t].userSaved,
                                       !.outcome = req[t].outcome]]

\* What the handler throws before its first store operation, "" when nothing:
\* req.headers.get('Authorization')!.replace(...) on a request without the
\* header is null.replace and throws a TypeError; getUser(token) of a token
\* that names no user throws 'Unauthorized'; then the body is validated.
RequestError(credential, message, conversationId) ==
    IF credential = "missing"
      THEN "Cannot read properties of null (reading 'replace')"
    ELSE IF credential = "invalid" THEN "Unauthorized"
    ELSE IF message = "" \/ conversationId = ""
      THEN "Message and conversation ID are required"
    ELSE ""

\* The Authorization header, supabase.auth.getUser(token), req.json() and the
\* validation of the body.  The credential and the body reach the handler
\* here: the tab's own message and conversation id, or whatever a direct
\* caller of the function sends.  The body is read only once the user is known.
Authenticate(t) ==
    /\ req[t].pc = "auth"
    /\ \E credential \in {"valid", "invalid", "missing"},
          message \in {"", req[t].message}, conversationId \in {"", "c1"} :
          LET err == RequestError(credential, message, conversationId)
              r == IF err # "" THEN Fail(t, err)[t]
                   ELSE [req[t] EXCEPT !.pc = "history"]
          IN req' = [req EXCEPT ![t] =
                       IF credential = "valid"
                         THEN [r EXCEPT !.credential = credential,
                                        !.message = message,
                                        !.conversationId = conversationId]
                         ELSE [r EXCEPT !.credential = credential]]
    /\ UNCHANGED <<now, user_points, messages, purchases, nreq, userPoints, shop, newUser, cvars>>

\* select content, role from messages ... order by created_at
GetHistory(t) ==
    /\ req[t].pc = "history"
    /\ \E ok \in BOOLEAN :
          req' = IF ok
                   THEN [req EXCEPT ![t].pc = "saveUser",
                                    ![t].history = Len(messages)]
                   ELSE Fail(t, "Failed to fetch conversation history")
    /\ UNCHANGED <<now, user_points, messages, purchases, nreq, userPoints, shop, newUser, cvars>>

\* variant: an error of the user-message insert is thrown
SaveUserMessageFatal(t) ==
    /\ req[t].pc = "saveUser"
    /\ \E ok \in BOOLEAN :
          /\ messages' = IF ok
                           THEN Append(messages, UserMsg(req[t].id, req[t].message))
                           ELSE messages
          /\ req' = IF ok
                      THEN [req EXCEPT ![t].pc = "provider", ![t].userSaved = ok]
                      ELSE Fail(t, "Failed to save user message")
    /\ UNCHANGED <<now, user_points, purchases, nreq, userPoints, shop, newUser, cvars>>

\* insert the user message; an error is logged and the flow goes on
SaveUserMessage(t) ==
    /\ req[t].pc = "saveUser"
    /\ \E ok \in BOOLEAN :
          /\ messages' = IF ok
                           THEN Append(messages, UserMsg(req[t].id, req[t].message))
                           ELSE messages
          /\ req' = [req EXCEPT ![t].pc = "provider", ![t].userSaved = ok]
    /\ UNCHANGED <<now, user_points, purchases, nreq, userPoints, shop, newUser, cvars>>

\* variant: only the status check, a body without candidates goes unnoticed
NotOkOnly(outcome) ==
    IF outcome = "status" THEN "Failed to get response from Gemini" ELSE ""

\* if (!geminiResponse.ok) throw ...; if (!candidates || length === 0) throw
\* ...: the message thrown for a provider outcome, "" when nothing is thrown
GeminiError(outcome) ==
    CASE outcome = "status" -> "Failed to get response from Gemini"
      [] outcome = "empty" -> "No response generated from Gemini"
      [] OTHER -> ""

\* fetch(gemini) returns: a non-2xx status, a body without candidates, or a
\* candidate; after the two checks aiResponse is taken and `today` is read
CallGemini(t) ==
    /\ req[t].pc = "provider"
    /\ \E outcome \in {"ok", "status", "empty"} :
          LET r == [req EXCEPT ![t].outcome = outcome] IN
          req' = IF GeminiError(outcome) # ""
                   THEN [r EXCEPT ![t].pc = "failed",
                                  ![t].history = 0,
                                  ![t].error = GeminiError(outcome)]
                   ELSE [r EXCEPT ![t].pc = "readPoints",
                                  ![t].history = 0,
                                  ![t].aiResponse = "reply",
                                  ![t].pointsAwarded = BasePoints,
                                  ![t].today = DateStr(now)]
    /\ UNCHANGED <<now, user_points, messages, purchases, nreq, userPoints, shop, newUser, cvars>>

\* The reward block once the user_points row is known (the continuation of
\* the select): `yesterday` is read from the clock at that moment.
Reward(r, row, t) ==
    LET yesterdayStr == YesterdayStr(t)
        lastActivityDate == row.last_activity_date
        pointsAwarded == Award(lastActivityDate, yesterdayStr, r.today)
        pointsCost == PointsCost(r.boost)
    IN [r EXCEPT
          !.pc = "updatePoints",
          !.row = <<row>>,
          !.yesterdayStr = yesterdayStr,
          !.newStreak = NewStreak(lastActivityDate, yesterdayStr, r.today,
                                  row.current_streak),
          !.pointsAwarded = pointsAwarded,
          !.pointsCost = pointsCost,
          !.newTotalPoints = NewTotalPoints(row.total_points, pointsAwarded,
                                            pointsCost),
          !.newPointsSpent = NewPointsSpent(row.points_spent, pointsCost)]

\* variant: a missing row is replaced by a fresh one (create-if-absent)
RewardRowOrDefault(data) ==
    IF data = <<>> THEN <<Row(0, 0, 0, NoDate)>> ELSE data

\* if (userPoints) { ... }: the row the reward block runs on, <<>> when the
\* block is skipped
RewardRow(data) == data

\* select * from user_points where user_id = ... single(): data is null when
\* the row is absent or the read fails, and then the reward block is skipped
GetUserPoints(t) ==
    /\ req[t].pc = "readPoints"
    /\ \E ok \in BOOLEAN :
          LET data == IF ok THEN user_points ELSE <<>>
              seen == IF ~ok THEN "error"
                      ELSE IF user_points = <<>> THEN "absent" ELSE "row"
              row  == RewardRow(data)
          IN req' = IF row # <<>>
                      THEN [req EXCEPT ![t] =
                              Reward([req[t] EXCEPT !.rowSeen = seen], row[1], now)]
                      ELSE [req EXCEPT ![t].pc = "saveAssistant",
                                       ![t].rowSeen = seen]
    /\ UNCHANGED <<now, user_points, messages, purchases, nreq, userPoints, shop, newUser, cvars>>

\* variant: the update applies only while the row is the one that was read
UpdateUserPointsIfUnchanged(t) ==
    /\ req[t].pc = "updatePoints"
    /\ \E ok \in BOOLEAN :
          /\ user_points' =
                IF ok /\ user_points = req[t].row
                  THEN <<Row(req[t].newTotalPoints, req[t].newPointsSpent,
                             req[t].newStreak, req[t].today)>>
                  ELSE user_points
          /\ req' = [req EXCEPT ![t].pc = "saveAssistant",
                                ![t].ledgerWrite = IF ok THEN "ok" ELSE "failed",
                                ![t].written = user_points']
    /\ UNCHANGED <<now, messages, purchases, nreq, userPoints, shop, newUser, cvars>>

\* update user_points set total_points, points_spent, current_streak,
\* last_activity_date where user_id = ...; the result is not inspected
UpdateUserPoints(t) ==
    /\ req[t].pc = "updatePoints"
    /\ \E ok \in BOOLEAN :
          /\ user_points' =
                IF ok /\ user_points # <<>>
                  THEN <<Row(req[t].newTotalPoints, req[t].newPointsSpent,
                             req[t].newStreak, req[t].today)>>
                  ELSE user_points
          /\ req' = [req EXCEPT ![t].pc = "saveAssistant",
                                ![t].ledgerWrite = IF ok THEN "ok" ELSE "failed",
                                ![t].written = user_points']
    /\ UNCHANGED <<now, messages, purchases, nreq, userPoints, shop, newUser, cvars>>

\* insert the assistant message (an error is logged), then the 200 response
SaveAssistantMessage(t) ==
    /\ req[t].pc = "saveAssistant"
    /\ \E ok \in BOOLEAN :
          /\ messages' =
                IF ok
                  THEN Append(messages, AssistantMsg(req[t].id, req[t].aiResponse,
                                                     req[t].pointsAwarded))
                  ELSE messages
          /\ req' = [req EXCEPT ![t].pc = "done", ![t].assistantSaved = ok]
    /\ UNCHANGED <<now, user_points, purchases, nreq, userPoints, shop, newUser, cvars>>

----------------------------------------------------------------------------
(* PointsDisplay *)

\* loadUserPoints: select * from user_points ... single(); setUserPoints(data)
\* (run by the effect on [user] when the component mounts; a failed load
\* leaves the state null until the next mount)
LoadUserPoints ==
    /\ userPoints = <<>>
    /\ user_points # <<>>
    /\ userPoints' = user_points
    /\ UNCHANGED <<now, user_points, messages, purchases, req, nreq, shop, newUser, cvars>>

\* purchaseItem(itemType, itemName, cost) up to the insert into purchases:
\* the balance check reads the component state, not the store
PurchaseItem ==
    /\ shop.pc = "idle"
    /\ purchases < MaxPurchases
    /\ userPoints # <<>>
    /\ \E cost \in ShopCosts, ok \in BOOLEAN :
          /\ ~(userPoints[1].total_points < cost)
          /\ IF ok
               THEN /\ purchases' = purchases + 1
                    /\ shop' = [pc |-> "update", cost |-> cost,
                                total_points |-> userPoints[1].total_points - cost,
                                points_spent |-> userPoints[1].points_spent + cost]
               ELSE UNCHANGED <<purchases, shop>>
    /\ UNCHANGED <<now, user_points, messages, req, nreq, userPoints, newUser, cvars>>

\* purchaseItem from the update of user_points on: on success the component
\* state takes the new totals, on error nothing more is done
PurchaseUpdate ==
    /\ shop.pc = "update"
    /\ \E ok \in BOOLEAN :
          IF ok
            THEN /\ user_points' =
                       IF user_points # <<>>
                         THEN <<[user_points[1] EXCEPT
                                   !.total_points = shop.total_points,
                                   !.points_spent = shop.points_spent]>>
                         ELSE user_points
                 /\ userPoints' = <<[userPoints[1] EXCEPT
                                       !.total_points = shop.total_points,
                                       !.points_spent = shop.points_spent]>>
            ELSE UNCHANGED <<user_points, userPoints>>
    /\ shop' = IdleShop
    /\ UNCHANGED <<now, messages, purchases, req, nreq, newUser, cvars>>

----------------------------------------------------------------------------
(* ChatInterface with its local message list, and the conversation title *)

TitleMax == 50        \* userMessage.length > 50
TitleKeep == 47       \* userMessage.substring(0, 47)

\* inputMessage.trim() of the sends: a short text, one of exactly TitleMax
\* characters and one of TitleMax + 1
Text50 == "0123456789abcdefghij0123456789ABCDEFGHIJ0123456789"
Texts == {"Hello", Text50, Text50 \o "k"}

\* userMessage.length > 50 ? userMessage.substring(0, 47) + '...' : userMessage
Title(userMessage) ==
    IF Len(userMessage) > TitleMax
      THEN SubSeq(userMessage, 1, TitleKeep) \o "..."
      ELSE userMessage

\* const tempMessage = {id: 'temp', content: userMessage, role: 'user', ...}
TempMessage(userMessage) ==
    [id |-> "temp", content |-> userMessage, role |-> "user"]

\* select * from messages where conversation_id = ... order by created_at
StoredMessages ==
    [i \in 1..Len(messages) |->
        [id |-> ToString(i), content |-> messages[i].content,
         role |-> messages[i].role]]

\* prev.filter(msg => msg.id !== 'temp')
RECURSIVE WithoutTemp(_)
WithoutTemp(list) ==
    IF list = <<>> THEN <<>>
    ELSE IF Head(list).id = "temp" THEN WithoutTemp(Tail(list))
    ELSE <<Head(list)>> \o WithoutTemp(Tail(list))

\* The component mounts (a page load): the list starts empty and the effect
\* on [conversationId] runs loadMessages, which keeps the list on an error.
LoadMessages ==
    /\ send.pc = "idle"
    /\ \E ok \in BOOLEAN :
          chatMessages' = IF ok THEN StoredMessages ELSE <<>>
    /\ send' = IdleSend
    /\ UNCHANGED <<lvars, now, user_points, messages, purchases, req, nreq,
                   userPoints, shop, newUser, title, titleReq>>

\* sendMessage up to the invoke: the temporary message is appended to the
\* list and the request leaves with the text typed
ClientSendMessage(t) ==
    /\ send.pc = "idle"
    /\ req[t].pc = "idle"
    /\ nreq < MaxRequests
    /\ \E userMessage \in Texts, b \in BOOLEAN :
          /\ chatMessages' = Append(chatMessages, TempMessage(userMessage))
          /\ send' = [pc |-> "invoking", userMessage |-> userMessage,
                      before |-> chatMessages, held |-> Len(messages),
                      result |-> ""]
          /\ req' = [req EXCEPT ![t] =
                    [IdleReq EXCEPT !.pc = "auth", !.id = nreq + 1,
                                    !.kind = "send", !.message = userMessage,
                                    !.boost = b]]
    /\ nreq' = nreq + 1
    /\ UNCHANGED <<lvars, now, user_points, messages, purchases, userPoints, shop,
                   newUser, title, titleReq>>

\* the invoke returns: on an error response the catch removes the temporary
\* message and sendMessage ends; otherwise loadMessages is awaited
InvokeReturns(t) ==
    /\ send.pc = "invoking"
    /\ req[t].pc \in {"done", "failed"}
    /\ IF req[t].pc = "failed"
         THEN /\ chatMessages' = WithoutTemp(chatMessages)
              /\ send' = [send EXCEPT !.pc = "idle", !.result = "error"]
         ELSE /\ chatMessages' = chatMessages
              /\ send' = [send EXCEPT !.pc = "reload"]
    /\ req' = [req EXCEPT ![t] = IdleReq]
    /\ UNCHANGED <<lvars, now, user_points, messages, purchases, nreq, userPoints,
                   shop, newUser, title, titleReq>>

\* await loadMessages() inside sendMessage (its error is caught inside
\* loadMessages), then the title update when the closure's list is empty:
\* onUpdateTitle is not awaited, its store update goes on by itself
ReloadMessages ==
    /\ send.pc = "reload"
    /\ \E ok \in BOOLEAN :
          chatMessages' = IF ok THEN StoredMessages ELSE chatMessages
    /\ titleReq' = IF Len(send.before) = 0
                     THEN Append(titleReq,
                                 [title |-> Title(send.userMessage),
                                  userMessage |-> send.userMessage,
                                  held |-> send.held])
                     ELSE titleReq
    /\ send' = [send EXCEPT !.pc = "idle", !.result = "ok"]
    /\ UNCHANGED <<lvars, now, user_points, messages, purchases, req, nreq,
                   userPoints, shop, newUser, title>>

\* updateConversationTitle(id, title): update conversations set title; an
\* error is logged
UpdateConversationTitle ==
    /\ \E i \in 1..Len(titleReq), ok \in BOOLEAN :
          /\ title' = IF ok THEN titleReq[i].title ELSE title
          /\ titleReq' = SubSeq(titleReq, 1, i - 1)
                            \o SubSeq(titleReq, i + 1, Len(titleReq))
    /\ UNCHANGED <<lvars, now, user_points, messages, purchases, req, nreq,
                   userPoints, shop, newUser, chatMessages, send>>

----------------------------------------------------------------------------
(* ChatLayout: the conversation list.  Every callback that awaits the store *)
(* is an entry of `ops` from its call to the return of its await; it keeps  *)
(* the activeConversationId and conversations of the render that made it.   *)

MaxConversations == 4   \* conversations ever inserted, the initial ones included

\* useState<string | null>(null)
NoConversation == "null"

\* the id the store gives the n-th conversation inserted
ConvId(n) == "c" \o ToString(n)

\* list.filter(conv => conv.id !== id)
Without(list, id) == SelectSeq(list, LAMBDA c : c # id)

\* a callback in flight, with the state its closure captured
Op(kind, id, active, list) ==
    [kind |-> kind, id |-> id, activeConversationId |-> active,
     conversations |-> list]

\* createNewConversation() called by loadConversations or deleteConversation
CreateOp == Op("create", "", NoConversation, <<>>)

\* ops once the callback at position i has returned
Returned(i) == SubSeq(ops, 1, i - 1) \o SubSeq(ops, i + 1, Len(ops))

\* every callback in flight may still insert one conversation
MayStart == nconv + Len(ops) < MaxConversations

\* onSelectConversation(id) on an entry of the sidebar
SelectConversation ==
    /\ \E i \in 1..Len(conversations) :
          activeConversationId' = conversations[i]
    /\ UNCHANGED <<now, user_points, messages, purchases, req, nreq,
                   userPoints, shop, newUser, chatMessages, send, title,
                   titleReq, conversationRows, conversations, ops, nconv>>

\* The page is loaded again: ChatLayout mounts with its initial state and the
\* effect on [user] calls loadConversations.
Mount ==
    /\ ops = <<>>
    /\ MayStart
    /\ conversations' = <<>>
    /\ activeConversationId' = NoConversation
    /\ ops' = <<Op("load", "", NoConversation, <<>>)>>
    /\ UNCHANGED <<now, user_points, messages, purchases, req, nreq,
                   userPoints, shop, newUser, chatMessages, send, title,
                   titleReq, conversationRows, nconv>>

\* loadConversations after its select: the list is replaced and the first
\* conversation made active, or createNewConversation is awaited when there
\* is none; an error is logged
LoadConversations ==
    /\ \E i \in 1..Len(ops), ok \in BOOLEAN :
          /\ ops[i].kind = "load"
          /\ IF ~ok
               THEN /\ ops' = Returned(i)
                    /\ UNCHANGED <<conversations, activeConversationId>>
               ELSE /\ conversations' = conversationRows
                    /\ IF Len(conversationRows) > 0
                         THEN /\ activeConversationId' = conversationRows[1]
                              /\ ops' = Returned(i)
                         ELSE /\ activeConversationId' = activeConversationId
                              /\ ops' = [ops EXCEPT ![i] = CreateOp]
    /\ UNCHANGED <<now, user_points, messages, purchases, req, nreq,
                   userPoints, shop, newUser, chatMessages, send, title,
                   titleReq, conversationRows, nconv>>

\* onNewConversation: createNewConversation() up to its insert
NewConversation ==
    /\ MayStart
    /\ ops' = Append(ops, CreateOp)
    /\ UNCHANGED <<now, user_points, messages, purchases, req, nreq,
                   userPoints, shop, newUser, chatMessages, send, title,
                   titleReq, conversationRows, conversations,
                   activeConversationId, nconv>>

\* createNewConversation after its insert ... select().single(): the new
\* conversation is put first and made active; an error is logged
CreateNewConversation ==
    /\ \E i \in 1..Len(ops), ok \in BOOLEAN :
          /\ ops[i].kind = "create"
          /\ ops' = Returned(i)
          /\ IF ok
               THEN /\ nconv' = nconv + 1
                    /\ conversationRows' = <<ConvId(nconv + 1)>> \o conversationRows
                    /\ conversations' = <<ConvId(nconv + 1)>> \o conversations
                    /\ activeConversationId' = ConvId(nconv + 1)
               ELSE UNCHANGED <<nconv, conversationRows, conversations,
                                activeConversationId>>
    /\ UNCHANGED <<now, user_points, messages, purchases, req, nreq,
                   userPoints, shop, newUser, chatMessages, send, title,
                   titleReq>>

\* onDeleteConversation(id) on an entry of the sidebar: deleteConversation(id)
\* up to its delete
DeleteClicked ==
    /\ MayStart
    /\ \E i \in 1..Len(conversations) :
          ops' = Append(ops, Op("delete", conversations[i],
                                activeConversationId, conversations))
    /\ UNCHANGED <<now, user_points, messages, purchases, req, nreq,
                   userPoints, shop, newUser, chatMessages, send, title,
                   titleReq, conversationRows, conversations,
                   activeConversationId, nconv>>

\* deleteConversation after its delete: the id leaves the list; when the
\* closure's activeConversationId is the id, the first of the closure's
\* remaining conversations becomes active, or createNewConversation is
\* awaited when none remains; an error is logged
DeleteConversation ==
    /\ \E i \in 1..Len(ops), ok \in BOOLEAN :
          /\ ops[i].kind = "delete"
          /\ IF ~ok
               THEN /\ ops' = Returned(i)
                    /\ UNCHANGED <<conversationRows, conversations,
                                   activeConversationId>>
               ELSE LET id == ops[i].id
                        remaining == Without(ops[i].conversations, id)
                    IN /\ conversationRows' = Without(conversationRows, id)
                       /\ conversations' = Without(conversations, id)
                       /\ IF ops[i].activeConversationId # id
                            THEN /\ activeConversationId' = activeConversationId
                                 /\ ops' = Returned(i)
                          ELSE IF Len(remaining) > 0
                            THEN /\ activeConversationId' = remaining[1]
                                 /\ ops' = Returned(i)
                          ELSE /\ activeConversationId' = activeConversationId
                               /\ ops' = [ops EXCEPT ![i] = CreateOp]
    /\ UNCHANGED <<now, user_points, messages, purchases, req, nreq,
                   userPoints, shop, newUser, chatMessages, send, title,
                   titleReq, nconv>>

----------------------------------------------------------------------------
(* Specifications *)

\* One tab sending requests one after another (ChatInterface sends nothing
\* while `loading`), and the clock.
Next ==
    \/ Tick
    \/ \E t \in Solo : SendMessage(t)
    \/ \E t \in Solo : RegenerateResponse(t)
    \/ \E t \in Solo : Complete(t)
    \/ \E t \in Solo : Authenticate(t)
    \/ \E t \in Solo : GetHistory(t)
    \/ \E t \in Solo : SaveUserMessage(t)
    \/ \E t \in Solo : CallGemini(t)
    \/ \E t \in Solo : GetUserPoints(t)
    \/ \E t \in Solo : UpdateUserPoints(t)
    \/ \E t \in Solo : SaveAssistantMessage(t)

Spec == Init /\ [][Next]_vars

\* One tab sending requests one after another while the shop of the same
\* user loads the ledger and buys: both write the user_points row.
NextShop ==
    \/ \E t \in Solo : SendMessage(t)
    \/ \E t \in Solo : RegenerateResponse(t)
    \/ \E t \in Solo : Complete(t)
    \/ \E t \in Solo : Authenticate(t)
    \/ \E t \in Solo : GetHistory(t)
    \/ \E t \in Solo : SaveUserMessage(t)
    \/ \E t \in Solo : CallGemini(t)
    \/ \E t \in Solo : GetUserPoints(t)
    \/ \E t \in Solo : UpdateUserPoints(t)
    \/ \E t \in Solo : SaveAssistantMessage(t)
    \/ LoadUserPoints
    \/ PurchaseItem
    \/ PurchaseUpdate

SpecShop == Init /\ [][NextShop]_vars

\* Two tabs of the same user on the same conversation, their requests served
\* concurrently: the handlers interleave between their store operations.
NextRace ==
    \/ \E t \in Tabs : SendMessage(t)
    \/ \E t \in Tabs : RegenerateResponse(t)
    \/ \E t \in Tabs : Complete(t)
    \/ \E t \in Tabs : Authenticate(t)
    \/ \E t \in Tabs : GetHistory(t)
    \/ \E t \in Tabs : SaveUserMessage(t)
    \/ \E t \in Tabs : CallGemini(t)
    \/ \E t \in Tabs : GetUserPoints(t)
    \/ \E t \in Tabs : UpdateUserPoints(t)
    \/ \E t \in Tabs : SaveAssistantMessage(t)

\* the racing requests are those of a user active yesterday or today
InitRace ==
    /\ Init
    /\ user_points # <<>>
    /\ user_points[1].last_activity_date >= FirstDay - 1

SpecRace == InitRace /\ [][NextRace]_vars

\* One ChatInterface: its sends, each served by the handler, its local list
\* and the title updates it starts.
NextClient ==
    \/ LoadMessages
    \/ \E t \in Solo : ClientSendMessage(t)
    \/ \E t \in Solo : InvokeReturns(t)
    \/ ReloadMessages
    \/ UpdateConversationTitle
    \/ \E t \in Solo : Authenticate(t)
    \/ \E t \in Solo : GetHistory(t)
    \/ \E t \in Solo : SaveUserMessage(t)
    \/ \E t \in Solo : CallGemini(t)
    \/ \E t \in Solo : GetUserPoints(t)
    \/ \E t \in Solo : UpdateUserPoints(t)
    \/ \E t \in Solo : SaveAssistantMessage(t)

\* the client starts on a fresh account: a ledger row without activity
InitClient == Init /\ user_points = <<Row(0, 0, 0, NoDate)>>

SpecClient == InitClient /\ [][NextClient]_vars

\* ChatLayout alone: the page has just been loaded by a user who owns no,
\* one or two conversations, and loadConversations is in flight.
InitLayout ==
    /\ now = FirstDay * TicksPerDay + (TicksPerDay - 1)
    /\ user_points = <<>>
    /\ messages = <<>>
    /\ purchases = 0
    /\ req = [t \in Tabs |-> IdleReq]
    /\ nreq = 0
    /\ userPoints = <<>>
    /\ shop = IdleShop
    /\ newUser = TRUE
    /\ chatMessages = <<>>
    /\ send = IdleSend
    /\ title = "New Conversation"
    /\ titleReq = <<>>
    /\ conversationRows \in {<<>>, <<ConvId(1)>>, <<ConvId(2), ConvId(1)>>}
    /\ nconv = Len(conversationRows)
    /\ conversations = <<>>
    /\ activeConversationId = NoConversation
    /\ ops = <<Op("load", "", NoConversation, <<>>)>>

NextLayout ==
    \/ Mount
    \/ LoadConversations
    \/ SelectConversation
    \/ NewConversation
    \/ CreateNewConversation
    \/ DeleteClicked
    \/ DeleteConversation

SpecLayout == InitLayout /\ [][NextLayout]_vars

----------------------------------------------------------------------------
(* Properties *)

\* the request of tab t returned the 200 response
Succeeded(t) == req[t].pc = "done"

\* the request of tab t ran the reward block on the row it read
Rewarded(t) == req[t].rowSeen = "row" /\ req[t].row # <<>>

\* the positions of the messages that request id inserted with the role
Inserted(id, role) ==
    {i \in 1..Len(messages) : messages[i].req = id /\ messages[i].role = role}

\* C1: in every reachable state of the store the ledger's total_points is
\* >= 0, whatever requests (boosted or not) and shop purchases interleave.
LedgerNeverNegative ==
    user_points # <<>> => user_points[1].total_points >= 0

\* a boosted request has clamped a balance the shop had debited before
LedgerClampedAfterPurchase ==
    /\ purchases > 0
    /\ user_points # <<>>
    /\ user_points[1].total_points = 0
    /\ user_points[1].points_spent > 10
    /\ \E t \in Tabs : /\ Succeeded(t)
                       /\ req[t].boost
                       /\ req[t].ledgerWrite = "ok"
                       /\ req[t].written = user_points

\* C2: a successful request that read a ledger row whose last_activity_date
\* is the day before the `today` it read sets current_streak to the old
\* value + 1 and awards 6 points.
StreakDayAwardsSix ==
    \A t \in Tabs :
        (/\ Succeeded(t)
         /\ Rewarded(t)
         /\ req[t].row[1].last_activity_date = req[t].today - 1)
        => /\ req[t].newStreak = req[t].row[1].current_streak + 1
           /\ req[t].pointsAwarded = 6

\* C3: a successful request that read a ledger row whose last_activity_date
\* is the `today` it read leaves current_streak at the old value and awards
\* 1 point, at whatever moments its steps run.
SameDayAwardsOne ==
    \A t \in Tabs :
        (/\ Succeeded(t)
         /\ Rewarded(t)
         /\ req[t].row[1].last_activity_date = req[t].today)
        => /\ req[t].newStreak = req[t].row[1].current_streak
           /\ req[t].pointsAwarded = 1

\* C4: a successful request that read a ledger row whose last_activity_date
\* is neither its `today` nor the day before (a gap, null, anything else)
\* sets current_streak to 1 and awards 1 point.
GapResetsStreak ==
    \A t \in Tabs :
        (/\ Succeeded(t)
         /\ Rewarded(t)
         /\ req[t].row[1].last_activity_date \notin {req[t].today, req[t].today - 1})
        => /\ req[t].newStreak = 1
           /\ req[t].pointsAwarded = 1
           /\ req[t].ledgerWrite = "ok" =>
                 /\ req[t].written # <<>>
                 /\ req[t].written[1].current_streak = 1

\* a streak of more than one day was reset after a gap of two days or more
GapResetSeen ==
    \E t \in Tabs :
        /\ Succeeded(t)
        /\ Rewarded(t)
        /\ req[t].row[1].last_activity_date # NoDate
        /\ req[t].row[1].last_activity_date < req[t].today - 1
        /\ req[t].row[1].current_streak > 1
        /\ req[t].ledgerWrite = "ok"
        /\ req[t].written[1].current_streak = 1

\* C5: a successful request with a ledger row has pointsCost 10 with boost
\* and 0 without, and its update sets total_points to
\* max(0, old total_points + pointsAwarded - pointsCost) and points_spent to
\* old points_spent + pointsCost, old being the row the request read.
LedgerUpdateFromRowRead ==
    \A t \in Tabs :
        (Succeeded(t) /\ Rewarded(t)) =>
            LET old  == req[t].row[1]
                cost == IF req[t].boost THEN 10 ELSE 0
                sum  == old.total_points + req[t].pointsAwarded - cost
                tot  == IF sum > 0 THEN sum ELSE 0
            IN /\ req[t].pointsCost = cost
               /\ req[t].newTotalPoints = tot
               /\ req[t].newPointsSpent = old.points_spent + cost
               /\ req[t].ledgerWrite = "ok" =>
                     /\ req[t].written # <<>>
                     /\ req[t].written[1].total_points = tot
                     /\ req[t].written[1].points_spent = old.points_spent + cost

\* a boosted request wrote its totals over a purchase made after its read
UpdateOverPurchaseSeen ==
    \E t \in Tabs :
        /\ Succeeded(t)
        /\ Rewarded(t)
        /\ req[t].boost
        /\ req[t].ledgerWrite = "ok"
        /\ purchases > 0
        /\ userPoints # <<>>
        /\ userPoints[1].points_spent > 0
        /\ req[t].row[1].points_spent = 0
        /\ req[t].written[1].points_spent = 10
        /\ req[t].written[1].total_points > 0

\* C6: a regenerate re-enters the flow with the stored user message's content
\* and inserts no second user-role message: after a successful regenerate
\* the conversation holds no user message of that request and exactly one
\* assistant message of it.
RegenerateInsertsNoUserMessage ==
    \A t \in Tabs :
        (Succeeded(t) /\ req[t].kind = "regenerate" /\ req[t].assistantSaved)
        => /\ Inserted(req[t].id, "user") = {}
           /\ Cardinality(Inserted(req[t].id, "assistant")) = 1

\* C7: when the provider returns a non-success status or zero candidates the
\* request fails with the provider's error payload, no assistant message of
\* the request is in the store, and the user message it had persisted is.
ProviderFailureKeepsUserMessage ==
    \A t \in Tabs :
        req[t].outcome \in {"status", "empty"}
        => /\ req[t].pc = "failed"
           /\ req[t].error \in {"Failed to get response from Gemini",
                                "No response generated from Gemini"}
           /\ Inserted(req[t].id, "assistant") = {}
           /\ req[t].userSaved =>
                 \E i \in Inserted(req[t].id, "user") :
                     messages[i].content = req[t].message
           /\ req[t].ledgerWrite = "none"

\* the provider returned zero candidates after the user message was stored
ZeroCandidatesSeen ==
    \E t \in Tabs :
        /\ req[t].pc = "failed"
        /\ req[t].outcome = "empty"
        /\ req[t].error = "No response generated from Gemini"
        /\ req[t].userSaved
        /\ Cardinality(Inserted(req[t].id, "user")) = 1
        /\ Inserted(req[t].id, "assistant") = {}

\* C8: a new user's first message in an empty conversation, boost off, every
\* store operation and the provider succeeding: one user message then one
\* assistant message are stored, pointsAwarded is 1, the ledger's
\* total_points has grown by 1 (from 0) and current_streak is 1.
NewUserFirstMessage ==
    \A t \in Tabs :
        (/\ Succeeded(t)
         /\ newUser
         /\ req[t].id = 1
         /\ req[t].kind = "send"
         /\ ~req[t].boost
         /\ req[t].userSaved
         /\ req[t].assistantSaved
         /\ req[t].rowSeen # "error"
         /\ req[t].ledgerWrite # "failed")
        => /\ messages = <<UserMsg(1, "Hello"), AssistantMsg(1, "reply", 1)>>
           /\ req[t].pointsAwarded = 1
           /\ user_points # <<>>
           /\ user_points[1].total_points = 1
           /\ user_points[1].current_streak = 1

\* C9: when the select of step 8 finds no ledger row the reward block is
\* skipped: no row is created, nothing is written to user_points, and the
\* request goes on to insert the assistant message and succeed.
AbsentRowSkipsReward ==
    \A t \in Tabs :
        req[t].rowSeen = "absent"
        => /\ req[t].pc \in {"saveAssistant", "done"}
           /\ req[t].ledgerWrite = "none"
           /\ req[t].written = <<>>
           /\ user_points = <<>>
           /\ req[t].pointsAwarded = 1
           /\ (Succeeded(t) /\ req[t].assistantSaved) =>
                 \E i \in Inserted(req[t].id, "assistant") :
                     /\ messages[i].content = req[t].aiResponse
                     /\ messages[i].points_awarded = 1

\* a request of a user without a ledger row succeeded, its reply stored
AbsentRowSeen ==
    \E t \in Tabs :
        /\ Succeeded(t)
        /\ req[t].rowSeen = "absent"
        /\ req[t].assistantSaved
        /\ Inserted(req[t].id, "assistant") # {}
        /\ user_points = <<>>

\* C10: a boosted request is never rejected for its balance: with a ledger
\* total_points b < 10 it has still called the provider and does not fail,
\* and when b + pointsAwarded < 10 the resulting total_points is exactly 0.
BoostNeverRejected ==
    \A t \in Tabs :
        (/\ req[t].boost
         /\ Rewarded(t)
         /\ req[t].row[1].total_points < 10)
        => /\ req[t].outcome = "ok"
           /\ req[t].aiResponse # ""
           /\ req[t].pc \in {"updatePoints", "saveAssistant", "done"}
           /\ req[t].error = ""
           /\ req[t].newTotalPoints >= 0
           /\ req[t].row[1].total_points + req[t].pointsAwarded < 10 =>
                 /\ req[t].newTotalPoints = 0
                 /\ req[t].ledgerWrite = "ok" =>
                       /\ req[t].written # <<>>
                       /\ req[t].written[1].total_points = 0

\* a boosted request of a user with 3 points succeeded and left 0 points
BoostOnLowBalanceSeen ==
    \E t \in Tabs :
        /\ Succeeded(t)
        /\ req[t].boost
        /\ Rewarded(t)
        /\ req[t].row[1].total_points = LowTotal
        /\ req[t].pointsAwarded = 1
        /\ req[t].ledgerWrite = "ok"
        /\ user_points[1].total_points = 0
        /\ user_points[1].points_spent = 10

\* the request of tab t has touched neither table nor the provider
Untouched(t) ==
    /\ ~req[t].userSaved
    /\ req[t].outcome = ""
    /\ req[t].rowSeen = ""
    /\ req[t].ledgerWrite = "none"
    /\ Inserted(req[t].id, "user") = {}
    /\ Inserted(req[t].id, "assistant") = {}

\* C11: a request whose credential is invalid or missing fails with
\* Unauthorized, one whose message is empty or whose conversationId is missing
\* fails with InvalidRequest, and in both cases the request reads and writes
\* neither messages nor user_points and does not call the provider.
InvalidRequestTouchesNothing ==
    \A t \in Tabs :
        req[t].pc \notin {"idle", "auth"}
        => /\ req[t].credential # "valid"
                => /\ req[t].pc = "failed"
                   /\ req[t].error = "Unauthorized"
                   /\ Untouched(t)
           /\ (req[t].credential = "valid"
                   /\ (req[t].message = "" \/ req[t].conversationId = ""))
                => /\ req[t].pc = "failed"
                   /\ req[t].error = "Message and conversation ID are required"
                   /\ Untouched(t)

\* the errors the handler throws: before the first write, or on the provider
ThrownErrors ==
    {"Cannot read properties of null (reading 'replace')", "Unauthorized",
     "Message and conversation ID are required",
     "Failed to fetch conversation history",
     "Failed to get response from Gemini", "No response generated from Gemini"}

\* C12: a failed store write of the user message is not fatal: the request
\* still calls the provider, runs the reward update, stores the assistant
\* message and returns the success response; a failed ledger update is not
\* fatal either.  No request fails because of a write.
WriteFailuresNonFatal ==
    \A t \in Tabs :
        /\ req[t].pc = "failed" => req[t].error \in ThrownErrors
        /\ req[t].ledgerWrite = "failed"
              => /\ req[t].pc \in {"saveAssistant", "done"}
                 /\ req[t].error = ""
        /\ (Succeeded(t) /\ ~req[t].userSaved)
              => /\ req[t].outcome = "ok"
                 /\ req[t].aiResponse = "reply"
                 /\ req[t].rowSeen = "row" => req[t].ledgerWrite # "none"
                 /\ req[t].assistantSaved
                       => Cardinality(Inserted(req[t].id, "assistant")) = 1

\* a request succeeded although its user-message insert and its ledger
\* update both failed
BothWritesFailedSeen ==
    \E t \in Tabs :
        /\ Succeeded(t)
        /\ ~req[t].userSaved
        /\ Inserted(req[t].id, "user") = {}
        /\ Rewarded(t)
        /\ req[t].ledgerWrite = "failed"
        /\ req[t].assistantSaved
        /\ Inserted(req[t].id, "assistant") # {}

\* C13: a first message of at most 50 characters sets the title to the
\* message unchanged, a longer one to its first 47 characters followed by
\* '...' (50 characters in all), and the title is set only when the
\* conversation held no messages before the send.
TitleFromFirstMessage ==
    \A i \in 1..Len(titleReq) :
        LET u == titleReq[i] IN
        /\ Len(u.userMessage) <= 50 => u.title = u.userMessage
        /\ Len(u.userMessage) > 50
              => /\ u.title = SubSeq(u.userMessage, 1, 47) \o "..."
                 /\ Len(u.title) = 50
        /\ u.held = 0

\* the ledger row the request of tab t computed from the row it had read
Computed(t) ==
    LET row == req[t].row[1]
        pointsAwarded == Award(row.last_activity_date, req[t].yesterdayStr,
                               req[t].today)
        pointsCost == PointsCost(req[t].boost)
    IN Row(NewTotalPoints(row.total_points, pointsAwarded, pointsCost),
           NewPointsSpent(row.points_spent, pointsCost),
           NewStreak(row.last_activity_date, req[t].yesterdayStr,
                     req[t].today, row.current_streak),
           req[t].today)

\* C14: the ledger update is a read-then-write without a concurrency check:
\* what a request writes is computed from the row it read, whatever another
\* request wrote in between, so the later of two writes overwrites the
\* earlier one; and total_points is >= 0 in every interleaving.
LedgerWriteFromOwnRead ==
    /\ user_points # <<>> => user_points[1].total_points >= 0
    /\ \A t \in Tabs :
          req[t].ledgerWrite = "ok"
          => /\ req[t].written = <<Computed(t)>>
             /\ req[t].written[1].total_points >= 0

\* two boosted requests read the same row and both wrote: the ledger holds
\* the award and the boost cost of one of them only
LostLedgerUpdateSeen ==
    /\ req[1].ledgerWrite = "ok"
    /\ req[2].ledgerWrite = "ok"
    /\ req[1].row = req[2].row
    /\ req[1].boost /\ req[2].boost
    /\ req[1].row[1].total_points = HighTotal
    /\ user_points[1].points_spent = req[1].row[1].points_spent + 10
    /\ user_points[1].total_points =
          req[1].row[1].total_points + req[1].pointsAwarded - 10

\* the roles and the requests of the stored messages, in created_at order
Roles == [i \in 1..Len(messages) |-> messages[i].role]
Requests == [i \in 1..Len(messages) |-> messages[i].req]

\* C15: two concurrent requests on one conversation interleave their history
\* read and their message inserts.  The only order the handler keeps is the
\* one inside a request, its user message before its assistant message; the
\* state user, user, assistant, assistant is reachable with the assistant
\* turns in the order opposite to the user turns.
TurnsOrderedWithinRequestOnly ==
    \A t \in Tabs :
        (req[t].userSaved /\ req[t].assistantSaved)
        => /\ Cardinality(Inserted(req[t].id, "user")) = 1
           /\ Cardinality(Inserted(req[t].id, "assistant")) = 1
           /\ \A i \in Inserted(req[t].id, "user"),
                 j \in Inserted(req[t].id, "assistant") : i < j

\* user, user, assistant, assistant: the reply to the second user turn is
\* stored before the reply to the first
RepliesOutOfOrderSeen ==
    /\ Roles = <<"user", "user", "assistant", "assistant">>
    /\ Requests = <<1, 2, 2, 1>>
    /\ \A t \in Tabs : Succeeded(t)

\* the local list holds a message with id 'temp'
HasTemp(list) == \E i \in 1..Len(list) : list[i].id = "temp"

\* C16: the optimistic update is temporary: sendMessage appends one message
\* with id 'temp' to the local list, and once sendMessage has finished, with
\* success or with failure, the list holds no message with id 'temp'; after a
\* failure the list equals the list before the send.
TempMessageIsTemporary ==
    /\ send.pc = "invoking"
          => chatMessages = Append(send.before, TempMessage(send.userMessage))
    /\ (send.pc = "idle" /\ send.result # "") => ~HasTemp(chatMessages)
    /\ (send.pc = "idle" /\ send.result = "error")
          => chatMessages = send.before

\* C17: a successful shop purchase of cost c lowers the stored total_points
\* by exactly c and raises the stored points_spent by exactly c, relative to
\* the row held in the store just before, whatever requests and purchases
\* came earlier; the stored points_spent never decreases.
PurchaseDebitsStoredRow ==
    [][/\ (shop.pc = "update" /\ userPoints' # userPoints)
            => /\ user_points'[1].total_points
                     = user_points[1].total_points - shop.cost
               /\ user_points'[1].points_spent
                     = user_points[1].points_spent + shop.cost
       /\ user_points # <<>>
            => user_points'[1].points_spent >= user_points[1].points_spent
      ]_vars

\* the stored replies that carry the streak bonus
BonusReplies ==
    {i \in 1..Len(messages) :
        messages[i].role = "assistant" /\ messages[i].points_awarded = 6}

\* C18: whatever the sequence or interleaving of one user's requests, at
\* most one successful response of a calendar day carries the streak bonus
\* (pointsAwarded = 6) and every other response of that day has
\* pointsAwarded = 1.  (No midnight passes here: all requests are of one day.)
OneBonusPerDay ==
    /\ Cardinality(BonusReplies) <= 1
    /\ \A t \in Tabs : Succeeded(t) => req[t].pointsAwarded \in {1, 6}
    /\ \A t1, t2 \in Tabs :
          (t1 # t2 /\ Succeeded(t1) /\ Succeeded(t2))
          => ~(req[t1].pointsAwarded = 6 /\ req[t2].pointsAwarded = 6)

\* C19: every success response corresponds to exactly one assistant message
\* stored in the conversation by that request, whose content and
\* points_awarded equal the response and pointsAwarded fields returned.
ResponseHasItsAssistantMessage ==
    \A t \in Tabs :
        Succeeded(t)
        => /\ Cardinality(Inserted(req[t].id, "assistant")) = 1
           /\ \A i \in Inserted(req[t].id, "assistant") :
                 /\ messages[i].content = req[t].aiResponse
                 /\ messages[i].points_awarded = req[t].pointsAwarded

\* C20: a request that fails with a provider error leaves the ledger row
\* unchanged: it reads and writes no ledger row, charges no boost and awards
\* no points; the ledger changes only in the update step of a request whose
\* provider call succeeded.
ProviderFailureLeavesLedger ==
    [][/\ \A t \in Tabs :
             req'[t].outcome \in {"status", "empty"}
             => /\ user_points' = user_points
                /\ req'[t].rowSeen = ""
                /\ req'[t].ledgerWrite = "none"
                /\ req'[t].pointsAwarded = 0
                /\ req'[t].pointsCost = 0
       /\ user_points' # user_points
             => \E t \in Tabs : /\ req[t].pc = "updatePoints"
                                /\ req[t].outcome = "ok"
                                /\ req'[t].ledgerWrite = "ok"
      ]_vars

\* a boosted request failed at the provider; the ledger row is the initial one
BoostedProviderFailureSeen ==
    \E t \in Tabs :
        /\ req[t].pc = "failed"
        /\ req[t].id = 1
        /\ req[t].boost
        /\ req[t].outcome = "status"
        /\ req[t].userSaved
        /\ user_points = <<Row(LowTotal, 0, InitStreak, FirstDay - 1)>>

\* the ids of a list of conversations
Ids(list) == {list[i] : i \in 1..Len(list)}

\* C21: after any sequence of load, create, select and delete operations,
\* each of which may fail against the store, activeConversationId is null or
\* the id of a conversation of the local list; it never refers to a
\* conversation that was deleted.
ActiveConversationIsListed ==
    ops = <<>>
    => \/ activeConversationId = NoConversation
       \/ /\ activeConversationId \in Ids(conversations)
          /\ activeConversationId \in Ids(conversationRows)

====
